---- MODULE Spec2Model ----
(***************************************************************************)
(* Model of webhook.py: the Twilio inbound-message webhook, the delivery-  *)
(* status webhook, the background consent updaters and the Google-Sheets   *)
(* helpers they use.                                                       *)
(*                                                                         *)
(* Text is a sequence of characters, so that strip, upper, replace and     *)
(* endswith are computed character by character as Python computes them.   *)
(* None is a value distinct from every text.                               *)
(***************************************************************************)
EXTENDS Naturals, Sequences, FiniteSets, TLC

----------------------------------------------------------------------------
(* Python str / list primitives                                            *)

\* distinct from every text ("None" is not a character)
None == <<"None">>

\* The characters of the model: U+0000 to U+00FF, the characters str.strip()
\* removes, every character whose upper case or lower case has a character of
\* U+0000 to U+00FF in it, and the upper and lower case of all of these.
\* A character is written as itself; U+0000 and the characters that cannot be
\* written in a string of this language are written by their code point, as
\* "U+017F".  str.upper(), str.lower() and str.isalnum() are given on these
\* characters and on no other.
Characters ==
    { "U+0000", "", "", "", "", "", "", "", "", "\t", "\n", "", "\f", "\r", "", "", "",
      "", "", "", "", "", "", "", "", "", "", "", "", "", "", "", " ", "!", "\"", "#",
      "$", "%", "&", "'", "(", ")", "*", "+", ",", "-", ".", "/", "0", "1", "2", "3", "4", "5", "6",
      "7", "8", "9", ":", ";", "<", "=", ">", "?", "@", "A", "B", "C", "D", "E", "F", "G", "H", "I",
      "J", "K", "L", "M", "N", "O", "P", "Q", "R", "S", "T", "U", "V", "W", "X", "Y", "Z", "[", "\\",
      "]", "^", "_", "U+0060", "a", "b", "c", "d", "e", "f", "g", "h", "i", "j", "k", "l", "m", "n",
      "o", "p", "q", "r", "s", "t", "u", "v", "w", "x", "y", "z", "{", "|", "}", "~", "", "", "",
      "", "", "", "", "", "", "", "", "", "", "", "", "", "", "", "", "", "", "",
      "", "", "", "", "", "", "", "", "", "", "", " ", "¡", "¢", "£", "¤", "¥", "¦", "§",
      "¨", "©", "ª", "«", "¬", "­", "®", "¯", "°", "±", "²", "³", "´", "µ", "¶", "·", "¸", "¹", "º",
      "»", "¼", "½", "¾", "¿", "À", "Á", "Â", "Ã", "Ä", "Å", "Æ", "Ç", "È", "É", "Ê", "Ë", "Ì", "Í",
      "Î", "Ï", "Ð", "Ñ", "Ò", "Ó", "Ô", "Õ", "Ö", "×", "Ø", "Ù", "Ú", "Û", "Ü", "Ý", "Þ", "ß", "à",
      "á", "â", "ã", "ä", "å", "æ", "ç", "è", "é", "ê", "ë", "ì", "í", "î", "ï", "ð", "ñ", "ò", "ó",
      "ô", "õ", "ö", "÷", "ø", "ù", "ú", "û", "ü", "ý", "þ", "ÿ", "U+0130", "U+0131", "U+0149",
      "U+0178", "U+017F", "ǰ", "ʼ", "ʾ", "U+0307", "U+0308", "U+030A", "U+030C", "U+0331", "Μ", "μ",
      " ", "ẖ", "ẗ", "ẘ", "ẙ", "ẚ", "ẞ", "U+2000", "U+2001", "U+2002", "U+2003", "U+2004", "U+2005",
      "U+2006", "U+2007", "U+2008", "U+2009", "U+200A", "U+2028", "U+2029", "U+202F", "U+205F",
      "U+212A", "U+212B", "U+3000", "U+FB00", "U+FB01", "U+FB02", "U+FB03", "U+FB04", "U+FB05",
      "U+FB06" }

\* the characters str.strip() removes
Whitespace ==
    { "\t", "\n", "", "\f", "\r", "", "", "", "", " ", "", " ", " ", "U+2000", "U+2001",
      "U+2002", "U+2003", "U+2004", "U+2005", "U+2006", "U+2007", "U+2008", "U+2009", "U+200A",
      "U+2028", "U+2029", "U+202F", "U+205F", "U+3000" }

\* the characters str.upper() changes, with the text it makes of each
ToUpper ==
    ("a" :> <<"A">>) @@ ("b" :> <<"B">>) @@ ("c" :> <<"C">>) @@ ("d" :> <<"D">>) @@
    ("e" :> <<"E">>) @@ ("f" :> <<"F">>) @@ ("g" :> <<"G">>) @@ ("h" :> <<"H">>) @@
    ("i" :> <<"I">>) @@ ("j" :> <<"J">>) @@ ("k" :> <<"K">>) @@ ("l" :> <<"L">>) @@
    ("m" :> <<"M">>) @@ ("n" :> <<"N">>) @@ ("o" :> <<"O">>) @@ ("p" :> <<"P">>) @@
    ("q" :> <<"Q">>) @@ ("r" :> <<"R">>) @@ ("s" :> <<"S">>) @@ ("t" :> <<"T">>) @@
    ("u" :> <<"U">>) @@ ("v" :> <<"V">>) @@ ("w" :> <<"W">>) @@ ("x" :> <<"X">>) @@
    ("y" :> <<"Y">>) @@ ("z" :> <<"Z">>) @@ ("µ" :> <<"Μ">>) @@ ("ß" :> <<"S", "S">>) @@
    ("à" :> <<"À">>) @@ ("á" :> <<"Á">>) @@ ("â" :> <<"Â">>) @@ ("ã" :> <<"Ã">>) @@
    ("ä" :> <<"Ä">>) @@ ("å" :> <<"Å">>) @@ ("æ" :> <<"Æ">>) @@ ("ç" :> <<"Ç">>) @@
    ("è" :> <<"È">>) @@ ("é" :> <<"É">>) @@ ("ê" :> <<"Ê">>) @@ ("ë" :> <<"Ë">>) @@
    ("ì" :> <<"Ì">>) @@ ("í" :> <<"Í">>) @@ ("î" :> <<"Î">>) @@ ("ï" :> <<"Ï">>) @@
    ("ð" :> <<"Ð">>) @@ ("ñ" :> <<"Ñ">>) @@ ("ò" :> <<"Ò">>) @@ ("ó" :> <<"Ó">>) @@
    ("ô" :> <<"Ô">>) @@ ("õ" :> <<"Õ">>) @@ ("ö" :> <<"Ö">>) @@ ("ø" :> <<"Ø">>) @@
    ("ù" :> <<"Ù">>) @@ ("ú" :> <<"Ú">>) @@ ("û" :> <<"Û">>) @@ ("ü" :> <<"Ü">>) @@
    ("ý" :> <<"Ý">>) @@ ("þ" :> <<"Þ">>) @@ ("ÿ" :> <<"U+0178">>) @@ ("U+0131" :> <<"I">>) @@
    ("U+0149" :> <<"ʼ", "N">>) @@ ("U+017F" :> <<"S">>) @@ ("ǰ" :> <<"J", "U+030C">>) @@
    ("μ" :> <<"Μ">>) @@ ("ẖ" :> <<"H", "U+0331">>) @@ ("ẗ" :> <<"T", "U+0308">>) @@
    ("ẘ" :> <<"W", "U+030A">>) @@ ("ẙ" :> <<"Y", "U+030A">>) @@ ("ẚ" :> <<"A", "ʾ">>) @@
    ("U+FB00" :> <<"F", "F">>) @@ ("U+FB01" :> <<"F", "I">>) @@ ("U+FB02" :> <<"F", "L">>) @@
    ("U+FB03" :> <<"F", "F", "I">>) @@ ("U+FB04" :> <<"F", "F", "L">>) @@
    ("U+FB05" :> <<"S", "T">>) @@ ("U+FB06" :> <<"S", "T">>)

\* the characters str.lower() changes, with the text it makes of each
ToLower ==
    ("A" :> <<"a">>) @@ ("B" :> <<"b">>) @@ ("C" :> <<"c">>) @@ ("D" :> <<"d">>) @@
    ("E" :> <<"e">>) @@ ("F" :> <<"f">>) @@ ("G" :> <<"g">>) @@ ("H" :> <<"h">>) @@
    ("I" :> <<"i">>) @@ ("J" :> <<"j">>) @@ ("K" :> <<"k">>) @@ ("L" :> <<"l">>) @@
    ("M" :> <<"m">>) @@ ("N" :> <<"n">>) @@ ("O" :> <<"o">>) @@ ("P" :> <<"p">>) @@
    ("Q" :> <<"q">>) @@ ("R" :> <<"r">>) @@ ("S" :> <<"s">>) @@ ("T" :> <<"t">>) @@
    ("U" :> <<"u">>) @@ ("V" :> <<"v">>) @@ ("W" :> <<"w">>) @@ ("X" :> <<"x">>) @@
    ("Y" :> <<"y">>) @@ ("Z" :> <<"z">>) @@ ("À" :> <<"à">>) @@ ("Á" :> <<"á">>) @@
    ("Â" :> <<"â">>) @@ ("Ã" :> <<"ã">>) @@ ("Ä" :> <<"ä">>) @@ ("Å" :> <<"å">>) @@
    ("Æ" :> <<"æ">>) @@ ("Ç" :> <<"ç">>) @@ ("È" :> <<"è">>) @@ ("É" :> <<"é">>) @@
    ("Ê" :> <<"ê">>) @@ ("Ë" :> <<"ë">>) @@ ("Ì" :> <<"ì">>) @@ ("Í" :> <<"í">>) @@
    ("Î" :> <<"î">>) @@ ("Ï" :> <<"ï">>) @@ ("Ð" :> <<"ð">>) @@ ("Ñ" :> <<"ñ">>) @@
    ("Ò" :> <<"ò">>) @@ ("Ó" :> <<"ó">>) @@ ("Ô" :> <<"ô">>) @@ ("Õ" :> <<"õ">>) @@
    ("Ö" :> <<"ö">>) @@ ("Ø" :> <<"ø">>) @@ ("Ù" :> <<"ù">>) @@ ("Ú" :> <<"ú">>) @@
    ("Û" :> <<"û">>) @@ ("Ü" :> <<"ü">>) @@ ("Ý" :> <<"ý">>) @@ ("Þ" :> <<"þ">>) @@
    ("U+0130" :> <<"i", "U+0307">>) @@ ("U+0178" :> <<"ÿ">>) @@ ("Μ" :> <<"μ">>) @@
    ("ẞ" :> <<"ß">>) @@ ("U+212A" :> <<"k">>) @@ ("U+212B" :> <<"å">>)

\* the characters of which str.isalnum() is true
AlnumChars ==
    { "0", "1", "2", "3", "4", "5", "6", "7", "8", "9", "A", "B", "C", "D", "E", "F", "G", "H", "I",
      "J", "K", "L", "M", "N", "O", "P", "Q", "R", "S", "T", "U", "V", "W", "X", "Y", "Z", "a", "b",
      "c", "d", "e", "f", "g", "h", "i", "j", "k", "l", "m", "n", "o", "p", "q", "r", "s", "t", "u",
      "v", "w", "x", "y", "z", "ª", "²", "³", "µ", "¹", "º", "¼", "½", "¾", "À", "Á", "Â", "Ã", "Ä",
      "Å", "Æ", "Ç", "È", "É", "Ê", "Ë", "Ì", "Í", "Î", "Ï", "Ð", "Ñ", "Ò", "Ó", "Ô", "Õ", "Ö", "Ø",
      "Ù", "Ú", "Û", "Ü", "Ý", "Þ", "ß", "à", "á", "â", "ã", "ä", "å", "æ", "ç", "è", "é", "ê", "ë",
      "ì", "í", "î", "ï", "ð", "ñ", "ò", "ó", "ô", "õ", "ö", "ø", "ù", "ú", "û", "ü", "ý", "þ", "ÿ",
      "U+0130", "U+0131", "U+0149", "U+0178", "U+017F", "ǰ", "ʼ", "ʾ", "Μ", "μ", "ẖ", "ẗ", "ẘ", "ẙ",
      "ẚ", "ẞ", "U+212A", "U+212B", "U+FB00", "U+FB01", "U+FB02", "U+FB03", "U+FB04", "U+FB05",
      "U+FB06" }

DigitChars == <<"0","1","2","3","4","5","6","7","8","9">>

Range(f) == {f[i] : i \in DOMAIN f}

\* value or "" : Python's (x or "")
OrEmpty(x) == IF x = None THEN <<>> ELSE x

\* ch.upper(): a text of one to three characters
UpperChar(ch) ==
    IF ch \in DOMAIN ToUpper THEN ToUpper[ch]
    ELSE CASE ch \in Characters -> <<ch>>

\* ch.lower(): a text of one or two characters
LowerChar(ch) ==
    IF ch \in DOMAIN ToLower THEN ToLower[ch]
    ELSE CASE ch \in Characters -> <<ch>>

\* s.upper(): the upper case of its characters, one after the other
RECURSIVE Upper(_)
Upper(s) == IF s = <<>> THEN <<>> ELSE UpperChar(Head(s)) \o Upper(Tail(s))

\* s.lower(): the lower case of its characters, one after the other (the one
\* character str.lower() treats by its neighbours, U+03A3, is not of the model)
RECURSIVE Lower(_)
Lower(s) == IF s = <<>> THEN <<>> ELSE LowerChar(Head(s)) \o Lower(Tail(s))

\* ch.isalnum()
IsAlnum(ch) ==
    IF ch \in AlnumChars THEN TRUE
    ELSE CASE ch \in Characters -> FALSE

RECURSIVE LStrip(_)
LStrip(s) == IF s # <<>> /\ Head(s) \in Whitespace THEN LStrip(Tail(s)) ELSE s

RECURSIVE RStrip(_)
RStrip(s) ==
    IF s # <<>> /\ s[Len(s)] \in Whitespace
    THEN RStrip(SubSeq(s, 1, Len(s) - 1))
    ELSE s

\* s.strip()
Strip(s) == RStrip(LStrip(s))

\* s.startswith(p)
StartsWith(s, p) == Len(p) <= Len(s) /\ SubSeq(s, 1, Len(p)) = p

\* s.endswith(p)
EndsWith(s, p) == Len(p) <= Len(s) /\ SubSeq(s, Len(s) - Len(p) + 1, Len(s)) = p

\* s.replace(old, ""), old non-empty: leftmost non-overlapping occurrences removed
RECURSIVE Remove(_, _)
Remove(s, old) ==
    IF s = <<>> THEN <<>>
    ELSE IF StartsWith(s, old) THEN Remove(SubSeq(s, Len(old) + 1, Len(s)), old)
    ELSE <<Head(s)>> \o Remove(Tail(s), old)

\* "".join(ch for ch in s if keep(ch))
RECURSIVE FilterAlnum(_)
FilterAlnum(s) ==
    IF s = <<>> THEN <<>>
    ELSE IF IsAlnum(Head(s)) THEN <<Head(s)>> \o FilterAlnum(Tail(s))
    ELSE FilterAlnum(Tail(s))

----------------------------------------------------------------------------
(* Header aliasing                                                         *)

_normalize(h) == FilterAlnum(Lower(h))

k_dnc          == <<"d", "n", "c">>
k_optin_date   == <<"o", "p", "t", "i", "n", "_", "d", "a", "t", "e">>
k_optin_source == <<"o", "p", "t", "i", "n", "_", "s", "o", "u", "r", "c", "e">>
k_optout_date  == <<"o", "p", "t", "o", "u", "t", "_", "d", "a", "t", "e">>
k_phone        == <<"p", "h", "o", "n", "e">>
k_status       == <<"s", "t", "a", "t", "u", "s">>
k_error        == <<"e", "r", "r", "o", "r">>
k_sid          == <<"s", "i", "d">>

\* the dictionary in its insertion order: <<logical key, accepted spellings>>
_HEADER_LOGICALS == <<
    <<k_dnc, << <<"d", "o", "_", "n", "o", "t", " ", "c", "o", "n", "t", "a", "c", "t">>, <<"d", "o", " ", "n", "o", "t", " ", "c", "o", "n", "t", "a", "c", "t">>, <<"d", "o", "_", "n", "o", "t", "_", "c", "o", "n", "t", "a", "c", "t">>, <<"d", "o", "n", "o", "t", "c", "o", "n", "t", "a", "c", "t">> >> >>,
    <<k_optin_date, << <<"o", "p", "t", " ", "i", "n", " ", "d", "a", "t", "e">>, <<"o", "p", "t", "_", "i", "n", " ", "d", "a", "t", "e">>, <<"o", "p", "t", "_", "i", "n", "_", "d", "a", "t", "e">>, <<"o", "p", "t", "i", "n", "d", "a", "t", "e">> >> >>,
    <<k_optin_source, << <<"o", "p", "t", "_", "i", "n", " ", "s", "o", "u", "r", "c", "e">>, <<"o", "p", "t", " ", "i", "n", " ", "s", "o", "u", "r", "c", "e">>, <<"o", "p", "t", "i", "n", "s", "o", "u", "r", "c", "e">> >> >>,
    <<k_optout_date, << <<"o", "p", "t", " ", "o", "u", "t", " ", "d", "a", "t", "e">>, <<"o", "p", "t", "_", "o", "u", "t", " ", "d", "a", "t", "e">>, <<"o", "p", "t", "_", "o", "u", "t", "_", "d", "a", "t", "e">>, <<"o", "p", "t", "o", "u", "t", "d", "a", "t", "e">> >> >>,
    <<k_phone, << <<"P", "h", "o", "n", "e">>, <<"p", "h", "o", "n", "e">> >> >>,
    <<k_status, << <<"S", "t", "a", "t", "u", "s">>, <<"s", "t", "a", "t", "u", "s">> >> >>,
    <<k_error, << <<"E", "r", "r", "o", "r">>, <<"e", "r", "r", "o", "r">> >> >>,
    <<k_sid, << <<"S", "I", "D">>, <<"s", "i", "d">> >> >>
  >>

\* {_normalize(h): h for h in headers}: a later header replaces an earlier one
NormToActual(headers, n) ==
    LET hits == {i \in DOMAIN headers : _normalize(headers[i]) = n}
    IN  IF hits = {} THEN None
        ELSE headers[CHOOSE i \in hits : \A j \in hits : j <= i]

\* the first spelling of the list whose normal form is a header's normal form
FirstVariant(headers, variants) ==
    LET hits == {j \in DOMAIN variants :
                    NormToActual(headers, _normalize(variants[j])) # None}
    IN  IF hits = {} THEN None
        ELSE NormToActual(headers,
               _normalize(variants[CHOOSE j \in hits : \A k \in hits : j <= k]))

_build_header_map(headers) ==
    LET found == {e \in DOMAIN _HEADER_LOGICALS :
                     FirstVariant(headers, _HEADER_LOGICALS[e][2]) # None}
        keyOf(k) == CHOOSE e \in found : _HEADER_LOGICALS[e][1] = k
    IN  [k \in {_HEADER_LOGICALS[e][1] : e \in found} |->
            FirstVariant(headers, _HEADER_LOGICALS[keyOf(k)][2])]

----------------------------------------------------------------------------
(* State                                                                   *)

VARIABLES
    TWILIO_AUTH_TOKEN,  \* the shared secret, "" when none is configured
    custHeaders,        \* row 1 of the customer sheet (sheet1)
    custRows,           \* rows 2.. of the customer sheet, one cell per header
    HEADER_MAP,         \* logical field -> header, built once at start-up
    logHeaders,         \* row 1 of the "Message Log" worksheet
    logRows,            \* rows 2.. of the "Message Log" worksheet, 8 cells each
    clock,              \* the wall clock, in seconds
    req,                \* request id -> the request thread of that request
    bg,                 \* request id -> the background thread it started
    nreq,               \* number of requests received so far
    e164_in,            \* argument of a direct call of find_row_index_by_phone
    idx_out             \* its result

vars == <<TWILIO_AUTH_TOKEN, custHeaders, custRows, HEADER_MAP, logHeaders,
          logRows, clock, req, bg, nreq, e164_in, idx_out>>

----------------------------------------------------------------------------
(* gspread worksheet reads                                                 *)

RECURSIVE TrimTrailingEmpty(_)
TrimTrailingEmpty(row) ==
    IF row # <<>> /\ row[Len(row)] = <<>>
    THEN TrimTrailingEmpty(SubSeq(row, 1, Len(row) - 1))
    ELSE row

\* ws.row_values(n): the cells of the row up to its last non-empty cell
row_values(headers, rows, n) ==
    IF n = 1 THEN TrimTrailingEmpty(headers)
    ELSE IF n - 1 \in DOMAIN rows THEN TrimTrailingEmpty(rows[n - 1])
    ELSE <<>>

\* one dictionary of ws.get_all_records(): row.get(h, default)
RecordGet(headers, row, h, default) ==
    LET hits == {i \in DOMAIN headers : headers[i] = h /\ i \in DOMAIN row}
    IN  IF hits = {} THEN default
        ELSE row[CHOOSE i \in hits : \A j \in hits : j <= i]

----------------------------------------------------------------------------
(* Phone normalisation and matching                                        *)

normalize_e164(wa_from) == Strip(Remove(OrEmpty(wa_from), <<"w", "h", "a", "t", "s", "a", "p", "p", ":">>))

CleanPhone(p) == Remove(Remove(Remove(p, <<"+">>), <<" ">>), <<"-">>)

\* the falsy result (None, None) of find_row_index_by_phone
NoRow == 0

\* ScanPhones without its last test (clean_stored.endswith(clean_incoming))
RECURSIVE ScanPhones_NoStoredSuffix(_, _, _)
ScanPhones_NoStoredSuffix(i, phone_header, clean_incoming) ==
    IF i > Len(custRows) THEN NoRow
    ELSE LET phone == Strip(RecordGet(custHeaders, custRows[i], phone_header, <<>>))
             clean_stored == CleanPhone(phone)
         IN  IF phone = <<>>
             THEN ScanPhones_NoStoredSuffix(i + 1, phone_header, clean_incoming)
             ELSE IF clean_incoming = clean_stored THEN i + 1
             ELSE IF EndsWith(clean_incoming, clean_stored) THEN i + 1
             ELSE ScanPhones_NoStoredSuffix(i + 1, phone_header, clean_incoming)

\* the loop over enumerate(records, start=2), from record number i on
RECURSIVE ScanPhones(_, _, _)
ScanPhones(i, phone_header, clean_incoming) ==
    IF i > Len(custRows) THEN NoRow
    ELSE LET phone == Strip(RecordGet(custHeaders, custRows[i], phone_header, <<>>))
             clean_stored == CleanPhone(phone)
         IN  IF phone = <<>> THEN ScanPhones(i + 1, phone_header, clean_incoming)
             ELSE IF clean_incoming = clean_stored THEN i + 1
             ELSE IF EndsWith(clean_incoming, clean_stored) THEN i + 1
             ELSE IF EndsWith(clean_stored, clean_incoming) THEN i + 1
             ELSE ScanPhones(i + 1, phone_header, clean_incoming)

\* the row index (first data row = 2) of the first match, NoRow when none
find_row_index_by_phone(e164) ==
    LET phone_header == IF k_phone \in DOMAIN HEADER_MAP
                        THEN HEADER_MAP[k_phone] ELSE <<"P", "h", "o", "n", "e">>
    IN  ScanPhones(1, phone_header, CleanPhone(e164))

----------------------------------------------------------------------------
(* Bounds and inputs                                                       *)

MaxReq == 2         \* requests received in one behaviour
MaxClock == 1       \* last second of the wall clock (the first is 0)
MaxPhoneRows == 2   \* customer rows of a sheet given to a direct lookup

Requests == 1 .. MaxReq

\* customer sheets: <<header row, data rows>>
FullHeaders == << <<"N", "a", "m", "e">>, <<"P", "h", "o", "n", "e">>, <<"D", "o", " ", "N", "o", "t", " ", "C", "o", "n", "t", "a", "c", "t">>, <<"O", "p", "t", " ", "I", "n", " ", "D", "a", "t", "e">>,
                  <<"o", "p", "t", "_", "i", "n", " ", "s", "o", "u", "r", "c", "e">>, <<"O", "p", "t", "O", "u", "t", "D", "a", "t", "e">> >>

\* no opt-in and no opt-out columns; the do-not-contact column is named by
\* the logical field itself, which no accepted spelling normalises to
BareHeaders == << <<"p", "h", "o", "n", "e">>, <<"d", "n", "c">> >>

CustSheets == {
    << FullHeaders,
       << << <<"A", "n", "a">>, <<"+", "5", "0", "7", " ", "6", "0", "0", "0", "-", "0", "0", "0", "0">>, <<>>, <<>>, <<>>, <<>> >>,
          << <<"B", "o">>, <<"6", "1", "1", "1">>, <<"T", "R", "U", "E">>, <<>>, <<>>, <<"T", "0">> >> >> >>,
    << BareHeaders,
       << << <<"6", "1", "1", "1">>, <<>> >>,
          << <<"+", "5", "0", "7", " ", "6", "0", "0", "0", "-", "0", "0", "0", "0">>, <<"F", "A", "L", "S", "E">> >> >> >>
  }

required_headers == << <<"D", "a", "t", "e">>, <<"N", "a", "m", "e">>, <<"P", "h", "o", "n", "e">>, <<"T", "y", "p", "e">>, <<"M", "e", "s", "s", "a", "g", "e">>,
                       <<"S", "t", "a", "t", "u", "s">>, <<"E", "r", "r", "o", "r">>, <<"S", "I", "D">> >>

\* Message Log worksheets: <<header row, data rows>>
LogSheets == {
    << <<>>, <<>> >>,
    << required_headers,
       << << <<"D", "0">>, <<"A", "n", "a">>, <<"6", "1", "1", "1">>, <<"P", "r", "o", "m", "o">>, <<"h", "i">>, <<"q", "u", "e", "u", "e", "d">>, <<>>, <<"S", "1">> >>,
          << <<"D", "0">>, <<"B", "o">>, <<"6", "1", "1", "1">>, <<"P", "r", "o", "m", "o">>, <<"h", "i">>, <<"s", "e", "n", "t">>, <<>>, <<>> >> >> >>,
    << required_headers \o << <<"N", "o", "t", "e", "s">> >>,
       << << <<"D", "0">>, <<"A", "n", "a">>, <<"6", "1", "1", "1">>, <<"P", "r", "o", "m", "o">>, <<"h", "i">>, <<"q", "u", "e", "u", "e", "d">>, <<>>, <<"S", "1">>, <<"n", "1">> >> >> >>
  }

\* request.form of POST /twilio/inbound, with the verdict of the signature check
InboundForm(sig, from, body) ==
    [path |-> "/twilio/inbound", sig_ok |-> sig, From |-> from, Body |-> body]

KnownFrom == <<"w", "h", "a", "t", "s", "a", "p", "p", ":", "+", "5", "0", "7", "6", "0", "0", "0", "0", "0", "0", "0">>
OtherFrom == <<"w", "h", "a", "t", "s", "a", "p", "p", ":", "+", "5", "0", "7", "6", "1", "1", "1">>
UnknownFrom == <<"w", "h", "a", "t", "s", "a", "p", "p", ":", "+", "5", "0", "7", "6", "9", "9", "9", "9", "9", "9", "9">>

InboundForms == {
    InboundForm(TRUE, KnownFrom, <<" ", "s", "t", "o", "p", "\r", "\n">>),
    InboundForm(TRUE, KnownFrom, <<"S", "i">>),
    InboundForm(TRUE, KnownFrom, <<"h", "o", "l", "a">>),
    InboundForm(TRUE, UnknownFrom, <<"S", "T", "O", "P">>),
    InboundForm(FALSE, KnownFrom, <<"S", "T", "O", "P">>)
  }

\* request.form of POST /twilio/status
StatusForm(sig, msid, ssid, st, ec, em, to) ==
    [path |-> "/twilio/status", sig_ok |-> sig, MessageSid |-> msid, SmsSid |-> ssid,
     MessageStatus |-> st, ErrorCode |-> ec, ErrorMessage |-> em, To |-> to]

StatusForms == {
    StatusForm(TRUE, <<"\f", "S", "1", "\r", "\n">>, None, <<"s", "e", "n", "t">>, None, None, <<"w", "h", "a", "t", "s", "a", "p", "p", ":", "+", "5", "0", "7", "6", "1", "1", "1">>),
    StatusForm(TRUE, <<"S", "1">>, <<"S", "9">>, <<"f", "a", "i", "l", "e", "d">>, <<"3", "0", "0", "0", "7">>, <<"x">>, None),
    StatusForm(TRUE, None, <<"S", "2">>, <<"r", "e", "a", "d">>, None, <<"b", "a", "d">>, None),
    StatusForm(TRUE, None, None, None, None, None, None),
    StatusForm(FALSE, <<"S", "1">>, None, <<"s", "e", "n", "t">>, None, None, None)
  }

----------------------------------------------------------------------------
(* Time                                                                    *)

\* datetime.utcnow().isoformat(timespec="seconds") + "Z" at second c
iso_now(c) == << "T", DigitChars[c + 1], "Z" >>

\* "%M" is the last field of the format: the text changes once a minute
SecondsPerMinute == 60

\* datetime.now().strftime("%d-%m-%Y %H:%M") at second c
strftime_now(c) == << "D", DigitChars[(c \div SecondsPerMinute) + 1] >>

----------------------------------------------------------------------------
(* Twilio validation                                                       *)

\* the check skipped altogether
is_valid_twilio_request_Always(form) == TRUE

\* validator.validate(...) is the library's verdict carried by the request
is_valid_twilio_request(form) ==
    IF TWILIO_AUTH_TOKEN = <<>> THEN TRUE ELSE form.sig_ok

----------------------------------------------------------------------------
(* set_row_values                                                          *)

\* cur += [""] * (len(headers) - len(cur))
PadTo(cur, n) == cur \o [i \in 1 .. (IF n > Len(cur) THEN n - Len(cur) ELSE 0) |-> <<>>]

\* {h: i for i, h in enumerate(headers)}: the last column of that name
HeaderIndex(headers, h) ==
    LET hits == {i \in DOMAIN headers : headers[i] = h}
    IN  IF hits = {} THEN 0 ELSE CHOOSE i \in hits : \A j \in hits : j <= i

\* ActualHeader without the direct look-up of the key among the headers
ActualHeader_NoFallback(headers, logical_key) ==
    IF logical_key \in DOMAIN HEADER_MAP THEN HEADER_MAP[logical_key] ELSE None

\* the header a logical key is written to, None when it has none
ActualHeader(headers, logical_key) ==
    IF logical_key \in DOMAIN HEADER_MAP THEN HEADER_MAP[logical_key]
    ELSE IF logical_key \in Range(headers) THEN logical_key
    ELSE None

\* ApplyUpdates leaving the loop after the first entry the sheet has a column for
RECURSIVE ApplyUpdates_FirstOnly(_, _, _, _)
ApplyUpdates_FirstOnly(headers, cur, updates, n) ==
    IF n > Len(updates) THEN cur
    ELSE LET actual == ActualHeader(headers, updates[n][1])
             col == IF actual = None THEN 0 ELSE HeaderIndex(headers, actual)
         IN  IF actual # None /\ actual # <<>> /\ col # 0
             THEN [cur EXCEPT ![col] = updates[n][2]]
             ELSE ApplyUpdates_FirstOnly(headers, cur, updates, n + 1)

\* the loop over updates_logical.items(), from entry n on
RECURSIVE ApplyUpdates(_, _, _, _)
ApplyUpdates(headers, cur, updates, n) ==
    IF n > Len(updates) THEN cur
    ELSE LET actual == ActualHeader(headers, updates[n][1])
             col == IF actual = None THEN 0 ELSE HeaderIndex(headers, actual)
         IN  ApplyUpdates(headers,
                          IF actual # None /\ actual # <<>> /\ col # 0
                          THEN [cur EXCEPT ![col] = updates[n][2]]
                          ELSE cur,
                          updates, n + 1)

\* set_row_values merging the updates into an empty row instead of the row read
set_row_values_FromBlank(headers, read_row, updates_logical) ==
    SubSeq(ApplyUpdates(headers, PadTo(<<>>, Len(headers)), updates_logical, 1),
           1, Len(headers))

\* the row set_row_values writes back: cells 1..len(headers) of the merged row
set_row_values(headers, read_row, updates_logical) ==
    SubSeq(ApplyUpdates(headers, PadTo(read_row, Len(headers)), updates_logical, 1),
           1, Len(headers))

\* ws.update_cells(rng): the cells of the range take their new values, the
\* cells of the row to the right of the range are not written
update_cells(row, cur) == cur \o SubSeq(row, Len(cur) + 1, Len(row))

----------------------------------------------------------------------------
(* Request threads and background threads                                  *)

NoForm == [path |-> "none"]

\* a request thread: pc is its position, form its input, http the status it
\* answered (0: none yet), reply the message of its TwiML response, row_idx
\* the row it matched or scanned to, calls the number of remote store calls
\* it made itself, failed whether a store call of it raised, after the
\* requests that had been answered when it was received, date the text of
\* datetime.now() it built for the row it appends
IdleReq == [pc |-> "idle", form |-> NoForm, http |-> 0, reply |-> "none",
            row_idx |-> NoRow, calls |-> 0, failed |-> FALSE, after |-> {},
            date |-> <<>>]

\* a background thread: target is the function it runs, updates the
\* dictionary it passes to set_row_values, headers the header row
\* set_row_values read, cur the merged row it will write
IdleBg == [pc |-> "none", target |-> "none", row_idx |-> NoRow,
           updates |-> <<>>, headers |-> <<>>, cur |-> <<>>]

NoMessage == "<Response />"
UnsubscribeReply == "You've been unsubscribed from Sardaar Ji promotions."
SubscribedReply == "Subscribed"
DefaultReply == "Thanks for contacting Sardaar Ji Indian Cuisine Panama!"

UnsubscribeTokens == { <<"S", "A", "L", "I", "R">>, <<"U", "N", "S", "U", "B", "S", "C", "R", "I", "B", "E">>, <<"C", "A", "N", "C", "E", "L">>, <<"E", "N", "D">>, <<"S", "T", "O", "P">>,
                       <<"B", "A", "J", "A">>, <<"A", "L", "T", "O">> }

ResubscribeTokens == { <<"S", "T", "A", "R", "T">>, <<"Y", "E", "S">>, <<"S", "I">> }

\* body without .strip()
body_NoStrip(form) == Upper(OrEmpty(form.Body))

\* from_num and body of inbound()
from_num(form) == normalize_e164(form.From)
body(form) == Upper(Strip(OrEmpty(form.Body)))

\* sid, status, error and to_number of status_callback()
sid(form) == Strip(OrEmpty(IF form.MessageSid # None /\ form.MessageSid # <<>>
                           THEN form.MessageSid ELSE form.SmsSid))
status(form) == Strip(OrEmpty(form.MessageStatus))
error_code(form) == Strip(OrEmpty(form.ErrorCode))
error_message(form) == Strip(OrEmpty(form.ErrorMessage))
error(form) == IF error_code(form) # <<>> THEN error_code(form) ELSE error_message(form)
to_number(form) == normalize_e164(form.To)

\* the seconds the clock can show when it is read next: time does not go back
Later == clock .. MaxClock

Answered == {q \in Requests : req[q].pc = "done"}

Init ==
    /\ TWILIO_AUTH_TOKEN \in { <<>>, <<"t", "o", "k">> }
    /\ \E sh \in CustSheets : custHeaders = sh[1] /\ custRows = sh[2]
    /\ HEADER_MAP = _build_header_map(custHeaders)
    /\ \E sh \in LogSheets : logHeaders = sh[1] /\ logRows = sh[2]
    /\ clock = 0
    /\ req = [r \in Requests |-> IdleReq]
    /\ bg = [r \in Requests |-> IdleBg]
    /\ nreq = 0
    /\ e164_in = <<>>
    /\ idx_out = NoRow

sheets == <<custHeaders, custRows, HEADER_MAP, logHeaders, logRows>>

\* A request is received and its signature checked: abort(403) or go on.
Receive(r, form, first) ==
    /\ r = nreq + 1
    /\ r \in Requests
    /\ nreq' = r
    /\ req' = [req EXCEPT ![r] =
                 IF is_valid_twilio_request(form)
                 THEN [@ EXCEPT !.pc = first, !.form = form, !.after = Answered]
                 ELSE [@ EXCEPT !.pc = "done", !.form = form, !.after = Answered,
                                !.http = 403]]
    /\ UNCHANGED <<TWILIO_AUTH_TOKEN, sheets, clock, bg, e164_in, idx_out>>

inbound_receive(r) == \E form \in InboundForms : Receive(r, form, "lookup")

\* TargetOf starting the updater whether or not a row was found
TargetOf_IgnoreMiss(row, b) ==
    IF b \in UnsubscribeTokens THEN "handle_unsubscribe"
    ELSE IF b \in ResubscribeTokens THEN "handle_resubscribe"
    ELSE "none"

\* the function the handler starts a thread for, "none" when it starts none
TargetOf(row, b) ==
    IF row = NoRow THEN "none"
    ELSE IF b \in UnsubscribeTokens THEN "handle_unsubscribe"
    ELSE IF b \in ResubscribeTokens THEN "handle_resubscribe"
    ELSE "none"

\* the message of the TwiML response the handler returns
ReplyOf(row, b) ==
    IF row = NoRow THEN NoMessage
    ELSE IF b \in UnsubscribeTokens THEN UnsubscribeReply
    ELSE IF b \in ResubscribeTokens THEN SubscribedReply
    ELSE DefaultReply

\* find_row_index_by_phone on the request thread, then the choice of the
\* reply and the start of the background thread.
inbound_lookup(r) ==
    /\ req[r].pc = "lookup"
    /\ LET row == find_row_index_by_phone(from_num(req[r].form))
           b == body(req[r].form)
           target == TargetOf(row, b)
       IN  /\ req' = [req EXCEPT ![r] = [@ EXCEPT !.pc = "return", !.row_idx = row,
                                                  !.reply = ReplyOf(row, b),
                                                  !.calls = @ + 1]]
           /\ bg' = IF target = "none" THEN bg
                    ELSE [bg EXCEPT ![r] = [@ EXCEPT !.pc = "begin", !.target = target,
                                                     !.row_idx = row]]
    /\ UNCHANGED <<TWILIO_AUTH_TOKEN, sheets, clock, nreq, e164_in, idx_out>>

\* sheet.get_all_records() raises on the request thread: the framework answers 500.
inbound_lookup_raises(r) ==
    /\ req[r].pc = "lookup"
    /\ req' = [req EXCEPT ![r] = [@ EXCEPT !.pc = "done", !.http = 500, !.failed = TRUE,
                                           !.calls = @ + 1]]
    /\ UNCHANGED <<TWILIO_AUTH_TOKEN, sheets, clock, bg, nreq, e164_in, idx_out>>

\* return str(resp)
inbound_return(r) ==
    /\ req[r].pc = "return"
    /\ req[r].form.path = "/twilio/inbound"
    /\ req' = [req EXCEPT ![r] = [@ EXCEPT !.pc = "done", !.http = 200]]
    /\ UNCHANGED <<TWILIO_AUTH_TOKEN, sheets, clock, bg, nreq, e164_in, idx_out>>

\* the dictionaries handle_unsubscribe / handle_resubscribe build at second c
UpdatesOf(target, c) ==
    IF target = "handle_unsubscribe"
    THEN << <<k_dnc, <<"T", "R", "U", "E">>>>, <<k_optout_date, iso_now(c)>> >>
    ELSE << <<k_dnc, <<"F", "A", "L", "S", "E">>>>, <<k_optin_source, <<"R", "e", "s", "u", "b", "s", "c", "r", "i", "b", "e">>>>,
            <<k_optin_date, iso_now(c)>> >>

\* The thread evaluates the dictionary it passes to set_row_values (iso_now).
bg_begin(r) ==
    /\ bg[r].pc = "begin"
    /\ \E now \in Later :
          /\ clock' = now
          /\ bg' = [bg EXCEPT ![r] = [@ EXCEPT !.pc = "headers",
                                               !.updates = UpdatesOf(bg[r].target, now)]]
    /\ UNCHANGED <<TWILIO_AUTH_TOKEN, sheets, req, nreq, e164_in, idx_out>>

\* headers = ws.row_values(1)
bg_headers(r) ==
    /\ bg[r].pc = "headers"
    /\ bg' = [bg EXCEPT ![r] = [@ EXCEPT !.pc = "read",
                 !.headers = row_values(custHeaders, custRows, 1)]]
    /\ UNCHANGED <<TWILIO_AUTH_TOKEN, sheets, clock, req, nreq, e164_in, idx_out>>

\* cur = ws.row_values(row_idx), and the updates merged into it
bg_read(r) ==
    /\ bg[r].pc = "read"
    /\ bg' = [bg EXCEPT ![r] = [@ EXCEPT !.pc = "range",
                 !.cur = set_row_values(bg[r].headers,
                                        row_values(custHeaders, custRows, bg[r].row_idx),
                                        bg[r].updates)]]
    /\ UNCHANGED <<TWILIO_AUTH_TOKEN, sheets, clock, req, nreq, e164_in, idx_out>>

\* rng = ws.range(row_idx, 1, row_idx, len(headers)): the cells are fetched,
\* and every value fetched is replaced by that of cur before it is used
bg_range(r) ==
    /\ bg[r].pc = "range"
    /\ bg' = [bg EXCEPT ![r] = [@ EXCEPT !.pc = "write"]]
    /\ UNCHANGED <<TWILIO_AUTH_TOKEN, sheets, clock, req, nreq, e164_in, idx_out>>

\* ws.update_cells(rng): the cells 1..len(headers) of the row are written
bg_write(r) ==
    /\ bg[r].pc = "write"
    /\ custRows' = [custRows EXCEPT ![bg[r].row_idx - 1] = update_cells(@, bg[r].cur)]
    /\ bg' = [bg EXCEPT ![r] = [@ EXCEPT !.pc = "done"]]
    /\ UNCHANGED <<TWILIO_AUTH_TOKEN, custHeaders, HEADER_MAP, logHeaders, logRows,
                   clock, req, nreq, e164_in, idx_out>>

\* bg_raises whose failing ws.update_cells has already written the row
bg_raises_HalfWritten(r) ==
    /\ bg[r].pc \in {"headers", "read", "range", "write"}
    /\ bg' = [bg EXCEPT ![r] = [@ EXCEPT !.pc = "failed"]]
    /\ custRows' = IF bg[r].pc = "write"
                   THEN [custRows EXCEPT ![bg[r].row_idx - 1] = update_cells(@, bg[r].cur)]
                   ELSE custRows
    /\ UNCHANGED <<TWILIO_AUTH_TOKEN, custHeaders, HEADER_MAP, logHeaders, logRows,
                   clock, req, nreq, e164_in, idx_out>>

\* A store call of set_row_values raises: caught and printed by the handler.
bg_raises(r) ==
    /\ bg[r].pc \in {"headers", "read", "range", "write"}
    /\ bg' = [bg EXCEPT ![r] = [@ EXCEPT !.pc = "failed"]]
    /\ UNCHANGED <<TWILIO_AUTH_TOKEN, sheets, clock, req, nreq, e164_in, idx_out>>

----------------------------------------------------------------------------
(* Delivery-status handler (runs on the request thread)                    *)

status_receive(r) == \E form \in StatusForms : Receive(r, form, "open")

\* headers.index(name) + 1 over required_headers
ColumnOf(name) == CHOOSE i \in DOMAIN required_headers : required_headers[i] = name
sid_col == ColumnOf(<<"S", "I", "D">>)
status_col == ColumnOf(<<"S", "t", "a", "t", "u", "s">>)
error_col == ColumnOf(<<"E", "r", "r", "o", "r">>)

\* ScanSids comparing the sid with the Status cell of each row
RECURSIVE ScanSids_WrongColumn(_, _)
ScanSids_WrongColumn(i, s) ==
    IF i > Len(logRows) THEN NoRow
    ELSE IF Strip(RecordGet(logHeaders, logRows[i], <<"S", "t", "a", "t", "u", "s">>, <<>>)) = s THEN i + 1
    ELSE ScanSids_WrongColumn(i + 1, s)

\* the loop over enumerate(records, start=2), from record number i on:
\* the row index of the first row whose SID cell is the sid, NoRow when none
RECURSIVE ScanSids(_, _)
ScanSids(i, s) ==
    IF i > Len(logRows) THEN NoRow
    ELSE IF Strip(RecordGet(logHeaders, logRows[i], <<"S", "I", "D">>, <<>>)) = s THEN i + 1
    ELSE ScanSids(i + 1, s)

\* sh = gc.open_by_url(SHEET_URL)
status_open(r) ==
    /\ req[r].pc = "open"
    /\ req' = [req EXCEPT ![r] = [@ EXCEPT !.pc = "worksheet", !.calls = @ + 1]]
    /\ UNCHANGED <<TWILIO_AUTH_TOKEN, sheets, clock, bg, nreq, e164_in, idx_out>>

\* ws = sh.worksheet("Message Log")
status_worksheet(r) ==
    /\ req[r].pc = "worksheet"
    /\ req' = [req EXCEPT ![r] = [@ EXCEPT !.pc = "headers", !.calls = @ + 1]]
    /\ UNCHANGED <<TWILIO_AUTH_TOKEN, sheets, clock, bg, nreq, e164_in, idx_out>>

\* headers = ws.row_values(1) and its comparison with required_headers
status_headers(r) ==
    /\ req[r].pc = "headers"
    /\ req' = [req EXCEPT ![r] = [@ EXCEPT
                 !.pc = IF row_values(logHeaders, logRows, 1) # required_headers
                        THEN "fix_headers" ELSE "scan",
                 !.calls = @ + 1]]
    /\ UNCHANGED <<TWILIO_AUTH_TOKEN, sheets, clock, bg, nreq, e164_in, idx_out>>

\* ws.update("A1:H1", [required_headers]): the cells A1 to H1 are written,
\* the header cells to their right are kept
status_fix_headers(r) ==
    /\ req[r].pc = "fix_headers"
    /\ logHeaders' = required_headers
                      \o SubSeq(logHeaders, Len(required_headers) + 1, Len(logHeaders))
    /\ req' = [req EXCEPT ![r] = [@ EXCEPT !.pc = "scan", !.calls = @ + 1]]
    /\ UNCHANGED <<TWILIO_AUTH_TOKEN, custHeaders, custRows, HEADER_MAP, logRows,
                   clock, bg, nreq, e164_in, idx_out>>

\* ws.get_all_records() and the search for the sid
status_scan(r) ==
    /\ req[r].pc = "scan"
    /\ LET i == ScanSids(1, sid(req[r].form))
       IN  req' = [req EXCEPT ![r] = [@ EXCEPT
                     !.pc = IF i = NoRow THEN "now" ELSE "update_status",
                     !.row_idx = i, !.calls = @ + 1]]
    /\ UNCHANGED <<TWILIO_AUTH_TOKEN, sheets, clock, bg, nreq, e164_in, idx_out>>

\* ws.update_cell(i, status_col, status)
status_update_status(r) ==
    /\ req[r].pc = "update_status"
    /\ logRows' = [logRows EXCEPT ![req[r].row_idx - 1] =
                      [PadTo(@, status_col) EXCEPT ![status_col] = status(req[r].form)]]
    /\ req' = [req EXCEPT ![r] = [@ EXCEPT !.pc = "update_error", !.calls = @ + 1]]
    /\ UNCHANGED <<TWILIO_AUTH_TOKEN, custHeaders, custRows, HEADER_MAP, logHeaders,
                   clock, bg, nreq, e164_in, idx_out>>

\* ws.update_cell(i, error_col, error_code or error_message)
status_update_error(r) ==
    /\ req[r].pc = "update_error"
    /\ logRows' = [logRows EXCEPT ![req[r].row_idx - 1] =
                      [PadTo(@, error_col) EXCEPT ![error_col] = error(req[r].form)]]
    /\ req' = [req EXCEPT ![r] = [@ EXCEPT !.pc = "return", !.calls = @ + 1]]
    /\ UNCHANGED <<TWILIO_AUTH_TOKEN, custHeaders, custRows, HEADER_MAP, logHeaders,
                   clock, bg, nreq, e164_in, idx_out>>

\* datetime.now().strftime(...), evaluated for the argument of append_row
\* before the call is made
status_now(r) ==
    /\ req[r].pc = "now"
    /\ \E now \in Later :
          /\ clock' = now
          /\ req' = [req EXCEPT ![r] = [@ EXCEPT !.pc = "append",
                                                 !.date = strftime_now(now)]]
    /\ UNCHANGED <<TWILIO_AUTH_TOKEN, sheets, bg, nreq, e164_in, idx_out>>

\* status_append leaving the Phone and Type cells of the new row empty
status_append_SidOnly(r) ==
    /\ req[r].pc = "append"
    /\ logRows' = Append(logRows,
                         << req[r].date, <<>>, <<>>, <<>>, <<>>,
                            status(req[r].form), error(req[r].form),
                            sid(req[r].form) >>)
    /\ req' = [req EXCEPT ![r] = [@ EXCEPT !.pc = "return", !.calls = @ + 1]]
    /\ UNCHANGED <<TWILIO_AUTH_TOKEN, custHeaders, custRows, HEADER_MAP, logHeaders,
                   clock, bg, nreq, e164_in, idx_out>>

\* ws.append_row([...])
status_append(r) ==
    /\ req[r].pc = "append"
    /\ logRows' = Append(logRows,
                         << req[r].date, <<>>, to_number(req[r].form),
                            <<"S", "t", "a", "t", "u", "s", " ", "U", "p", "d", "a", "t", "e">>, <<>>, status(req[r].form),
                            error(req[r].form), sid(req[r].form) >>)
    /\ req' = [req EXCEPT ![r] = [@ EXCEPT !.pc = "return", !.calls = @ + 1]]
    /\ UNCHANGED <<TWILIO_AUTH_TOKEN, custHeaders, custRows, HEADER_MAP, logHeaders,
                   clock, bg, nreq, e164_in, idx_out>>

\* the exception of a store call left uncaught: the framework answers 500
status_raises_Uncaught(r) ==
    /\ req[r].pc \in {"open", "worksheet", "headers", "fix_headers", "scan",
                      "update_status", "update_error", "append"}
    /\ req' = [req EXCEPT ![r] = [@ EXCEPT !.pc = "done", !.failed = TRUE,
                                           !.http = 500, !.calls = @ + 1]]
    /\ UNCHANGED <<TWILIO_AUTH_TOKEN, sheets, clock, bg, nreq, e164_in, idx_out>>

\* A store call raises inside the try block: caught and printed.
status_raises(r) ==
    /\ req[r].pc \in {"open", "worksheet", "headers", "fix_headers", "scan",
                      "update_status", "update_error", "append"}
    /\ req' = [req EXCEPT ![r] = [@ EXCEPT !.pc = "return", !.failed = TRUE,
                                           !.calls = @ + 1]]
    /\ UNCHANGED <<TWILIO_AUTH_TOKEN, sheets, clock, bg, nreq, e164_in, idx_out>>

\* return "OK", 200
status_return(r) ==
    /\ req[r].pc = "return"
    /\ req[r].form.path = "/twilio/status"
    /\ req' = [req EXCEPT ![r] = [@ EXCEPT !.pc = "done", !.http = 200, !.reply = "OK"]]
    /\ UNCHANGED <<TWILIO_AUTH_TOKEN, sheets, clock, bg, nreq, e164_in, idx_out>>

----------------------------------------------------------------------------
(* Specifications                                                          *)

inbound(r) ==
    \/ inbound_receive(r)
    \/ inbound_lookup(r)
    \/ inbound_lookup_raises(r)
    \/ inbound_return(r)

background(r) ==
    \/ bg_begin(r)
    \/ bg_headers(r)
    \/ bg_read(r)
    \/ bg_range(r)
    \/ bg_write(r)
    \/ bg_raises(r)

status_callback(r) ==
    \/ status_receive(r)
    \/ status_open(r)
    \/ status_worksheet(r)
    \/ status_headers(r)
    \/ status_fix_headers(r)
    \/ status_scan(r)
    \/ status_update_status(r)
    \/ status_update_error(r)
    \/ status_now(r)
    \/ status_append(r)
    \/ status_raises(r)
    \/ status_return(r)

Next ==
    \/ \E r \in Requests : inbound(r)
    \/ \E r \in Requests : background(r)
    \/ \E r \in Requests : status_callback(r)

Spec == Init /\ [][Next]_vars


\* inbound messages only, with a secret configured, over one Message Log
InitInbound == Init /\ TWILIO_AUTH_TOKEN # <<>> /\ logHeaders = required_headers

NextInbound ==
    \/ \E r \in Requests : inbound(r)
    \/ \E r \in Requests : background(r)

SpecInbound == InitInbound /\ [][NextInbound]_vars

\* delivery-status callbacks only, with a secret configured, over one customer sheet
InitStatus == Init /\ TWILIO_AUTH_TOKEN # <<>> /\ custHeaders = FullHeaders

NextStatus ==
    \/ \E r \in Requests : status_callback(r)

SpecStatus == InitStatus /\ [][NextStatus]_vars


\* Scheduling: a started thread keeps being scheduled, and a store call it
\* makes returns or raises.
inbound_step(r) == inbound_lookup_raises(r) \/ inbound_return(r) \/ inbound_lookup(r)

FairInbound ==
    /\ SpecInbound
    /\ \A r \in Requests : WF_vars(inbound_step(r)) /\ WF_vars(bg_raises(r) \/ background(r))

status_step(r) ==
    \/ status_raises(r)
    \/ status_return(r)
    \/ status_open(r)
    \/ status_worksheet(r)
    \/ status_headers(r)
    \/ status_fix_headers(r)
    \/ status_scan(r)
    \/ status_update_status(r)
    \/ status_update_error(r)
    \/ status_now(r)
    \/ status_append(r)

FairStatus == SpecStatus /\ \A r \in Requests : WF_vars(status_step(r))

----------------------------------------------------------------------------
(* One inbound message, over every keyword in several spellings            *)

Keywords == UnsubscribeTokens \cup ResubscribeTokens

Bodies ==
    Keywords
    \cup {Lower(t) : t \in Keywords}
    \cup {<<" ">> \o Lower(t) \o <<"\r", "\n">> : t \in Keywords}
    \cup { None, <<>>, <<"h", "o", "l", "a">>, <<"S", "T", "O", "P", "S">>, <<"S", " ", "T", "O", "P">>, <<"S", "I", " ", "N", "O">>, <<"N", "O">>, <<"S", "T", "A", "R">> }
    \* bodies with characters outside ASCII: U+017F and U+FB06 whose upper case
    \* is "S" and "ST", U+0131 whose upper case is "I", an accented "SI", U+00DF
    \* whose upper case is "SS", and a keyword between U+2003 and U+3000
    \cup { <<"U+017F", "t", "o", "p">>, <<"U+FB06", "a", "r", "t">>, <<"s", "U+0131">>, <<"s", "í">>, <<"s", "t", "r", "a", "ß", "e">>,
           <<"U+2003", "a", "l", "t", "o", "U+3000">> }

AllInboundForms ==
    { InboundForm(s, f, b) :
        s \in BOOLEAN, f \in {KnownFrom, OtherFrom, UnknownFrom, None}, b \in Bodies }

inbound_receive_any(r) == \E form \in AllInboundForms : Receive(r, form, "lookup")

NextOne ==
    \/ inbound_receive_any(1)
    \/ inbound_lookup(1)
    \/ inbound_lookup_raises(1)
    \/ inbound_return(1)
    \/ background(1)

SpecOne == InitInbound /\ [][NextOne]_vars

----------------------------------------------------------------------------
(* Direct calls of find_row_index_by_phone                                 *)

StoredPhones == { <<"+", "5", "0", "7", " ", "6", "0", "0", "0", "-", "0", "0", "0", "0">>, <<"9", "9", "9">>, <<"1", "9", "9", "9">>, <<"9", "9", " ", "9", "-">>, <<" ">>, <<"+">>, <<>> }

Incomings == { <<"5", "0", "7", "6", "0", "0", "0", "0", "0", "0", "0">>, <<"+", "5", "0", "7", " ", "6", "0", "0", "0", "-", "0", "0", "0", "0">>, <<"6", "0", "0", "0", "0", "0", "0", "0">>, <<"1", "9", "9", "9">>, <<"9", "9", "9">>,
               <<"+", "1", "-", "9", "9", "9">>, <<"9", "9">>, <<"5">>, <<>> }

\* the last header is not a spelling of "phone": U+00B2 is alphanumeric
PhoneColumns == { << <<"P", "h", "o", "n", "e">> >>, << <<"P", "H", "O", "N", "E">> >>, << <<"P", "h", "o", "n", "e", "²">> >> }

RECURSIVE SeqsUpTo(_, _)
SeqsUpTo(S, n) ==
    IF n = 0 THEN { <<>> }
    ELSE SeqsUpTo(S, n - 1)
         \cup {Append(q, x) : q \in {p \in SeqsUpTo(S, n - 1) : Len(p) = n - 1}, x \in S}

InitPhone ==
    /\ TWILIO_AUTH_TOKEN = <<>>
    /\ custHeaders \in PhoneColumns
    /\ custRows \in SeqsUpTo({ <<p>> : p \in StoredPhones }, MaxPhoneRows)
    /\ HEADER_MAP = _build_header_map(custHeaders)
    /\ logHeaders = required_headers
    /\ logRows = <<>>
    /\ clock = 0
    /\ req = [r \in Requests |-> IdleReq]
    /\ bg = [r \in Requests |-> IdleBg]
    /\ nreq = 0
    /\ e164_in \in Incomings
    /\ idx_out = NoRow

\* row_idx, _row = find_row_index_by_phone(e164_in)
lookup_call ==
    /\ nreq = 0
    /\ nreq' = 1
    /\ idx_out' = find_row_index_by_phone(e164_in)
    /\ UNCHANGED <<TWILIO_AUTH_TOKEN, sheets, clock, req, bg, e164_in>>

SpecPhone == InitPhone /\ [][lookup_call]_vars


----------------------------------------------------------------------------
(* Vocabulary of the properties                                            *)

IsInbound(r) == req[r].form.path = "/twilio/inbound"
IsStatus(r) == req[r].form.path = "/twilio/status"

\* the request passed the signature check and no store call of it raised
Accepted(r) == req[r].pc # "idle" /\ req[r].http # 403
Replied(r) == req[r].pc \in {"return", "done"} /\ ~req[r].failed

\* the keyword sets as the contract lists them
ContractUnsubscribe == { <<"S", "A", "L", "I", "R">>, <<"U", "N", "S", "U", "B", "S", "C", "R", "I", "B", "E">>, <<"C", "A", "N", "C", "E", "L">>, <<"E", "N", "D">>, <<"S", "T", "O", "P">>,
                         <<"B", "A", "J", "A">>, <<"A", "L", "T", "O">> }
ContractResubscribe == { <<"S", "T", "A", "R", "T">>, <<"Y", "E", "S">>, <<"S", "I">> }

TrimmedUpper(text) == Upper(Strip(OrEmpty(text)))

\* text without '+', spaces and hyphens
WithoutSeparators(p) == SelectSeq(p, LAMBDA ch : ch \notin {"+", " ", "-"})

\* a is a suffix of b
IsSuffixOf(a, b) == \E n \in 0 .. Len(b) : a = SubSeq(b, n + 1, Len(b))

IsBlank(p) == \A i \in DOMAIN p : p[i] \in Whitespace

\* the cell of a customer row under a logical field, "" when it has no column
CellOf(row, logical_key) ==
    LET cols == {c \in DOMAIN custHeaders :
                    \/ custHeaders[c] = logical_key
                    \/ \E e \in DOMAIN _HEADER_LOGICALS :
                          /\ _HEADER_LOGICALS[e][1] = logical_key
                          /\ _normalize(custHeaders[c]) =
                                _normalize(_HEADER_LOGICALS[e][2][1])}
    IN  IF cols \cap DOMAIN row = {} THEN <<>>
        ELSE row[CHOOSE c \in cols \cap DOMAIN row : TRUE]

\* sheet row n of the customer sheet (the first data row is row 2)
SheetRow(n) == IF n - 1 \in DOMAIN custRows THEN custRows[n - 1] ELSE <<>>

HasColumn(logical_key) == ActualHeader(custHeaders, logical_key) # None

\* the phone-matching rule for data row i (sheet row i + 1) and number e164
RuleMatches(i, e164) ==
    LET stored == CellOf(custRows[i], k_phone)
        cs == WithoutSeparators(stored)
        ci == WithoutSeparators(e164)
    IN  /\ ~IsBlank(stored)
        /\ (ci = cs \/ IsSuffixOf(ci, cs) \/ IsSuffixOf(cs, ci))

----------------------------------------------------------------------------
(* C1 *)

\* The outcome of a request r is the one the class of its body calls for.
OutcomeByBody(r) ==
    LET b == TrimmedUpper(req[r].form.Body)
    IN  IF b \in ContractUnsubscribe
        THEN /\ req[r].reply = UnsubscribeReply
             /\ bg[r].target = "handle_unsubscribe"
             /\ bg[r].pc # "none"
        ELSE IF b \in ContractResubscribe
        THEN /\ req[r].reply = SubscribedReply
             /\ bg[r].target = "handle_resubscribe"
             /\ bg[r].pc # "none"
        ELSE /\ req[r].reply = DefaultReply
             /\ bg[r].pc = "none"

\* C1 as stated: for every validated inbound request, whatever the sender and
\* the customer sheet, the outcome (reply and scheduled update) is decided by
\* the trimmed, upper-cased body alone.
C1_OutcomeForEverySender ==
    \A r \in Requests :
        (IsInbound(r) /\ Accepted(r) /\ Replied(r)) => OutcomeByBody(r)

\* C1 amended: for every validated inbound request whose sender matches a row
\* of the customer sheet, the outcome is decided by the trimmed, upper-cased
\* body alone: Unsubscribe for the seven opt-out keywords, Resubscribe for
\* START/YES/SI, Other (default reply, nothing scheduled) for any other body.
C1_OutcomeForMatchedSender ==
    \A r \in Requests :
        (IsInbound(r) /\ Accepted(r) /\ Replied(r) /\ req[r].row_idx # NoRow)
            => OutcomeByBody(r)

\* a padded lower-case keyword of a known sender was answered as Unsubscribe
C1_Witness ==
    /\ req[1].pc = "done"
    /\ req[1].http = 200
    /\ req[1].form.path = "/twilio/inbound"
    /\ req[1].form.Body = <<" ", "s", "a", "l", "i", "r", "\r", "\n">>
    /\ req[1].row_idx # NoRow
    /\ req[1].reply = UnsubscribeReply
    /\ bg[1].pc = "done"

----------------------------------------------------------------------------
(* C10 *)

\* C10: find_row_index_by_phone returns the earliest sheet row whose stored
\* phone is non-blank and, with '+', spaces and hyphens removed on both sides,
\* equals the incoming number, ends with it, or is an ending of it; it returns
\* no row exactly when no row satisfies that rule.
C10_PhoneMatching ==
    nreq = 1 =>
        LET M == {i \in DOMAIN custRows : RuleMatches(i, e164_in)}
        IN  IF M = {} THEN idx_out = NoRow
            ELSE idx_out = 1 + (CHOOSE i \in M : \A j \in M : i <= j)

\* "50760000000" finds the stored "+507 6000-0000" in sheet row 3, after a
\* row that does not match
C10_Witness ==
    /\ nreq = 1
    /\ e164_in = <<"5", "0", "7", "6", "0", "0", "0", "0", "0", "0", "0">>
    /\ Len(custRows) = 2
    /\ custRows[1] = << <<"9", "9", "9">> >>
    /\ custRows[2] = << <<"+", "5", "0", "7", " ", "6", "0", "0", "0", "-", "0", "0", "0", "0">> >>
    /\ idx_out = 3


----------------------------------------------------------------------------
(* C2 *)

Rejected(r) == req[r].pc = "done" /\ req[r].http = 403

\* C2: on both webhooks a request with an invalid signature, when a secret is
\* configured, is answered 403 having made no store call and started no
\* background thread, and when every request received so far was rejected the
\* customer sheet and the Message Log are as they were at start; when no
\* secret is configured no request is rejected.
C2_SignatureRejection ==
    /\ \A r \in Requests :
          req[r].pc # "idle" =>
             /\ (TWILIO_AUTH_TOKEN # <<>> /\ ~req[r].form.sig_ok)
                   => (Rejected(r) /\ req[r].calls = 0 /\ bg[r].pc = "none")
             /\ (TWILIO_AUTH_TOKEN = <<>>) => ~Rejected(r)
             /\ req[r].form.sig_ok => ~Rejected(r)
    /\ (\A r \in Requests : req[r].pc = "idle" \/ Rejected(r))
          => /\ \E sh \in CustSheets : custHeaders = sh[1] /\ custRows = sh[2]
             /\ \E sh \in LogSheets : logHeaders = sh[1] /\ logRows = sh[2]

\* with a secret configured, an inbound message and a status callback with
\* bad signatures were both answered 403
C2_Witness ==
    /\ TWILIO_AUTH_TOKEN # <<>>
    /\ req[1].form.path = "/twilio/inbound" /\ Rejected(1) /\ ~req[1].form.sig_ok
    /\ req[2].form.path = "/twilio/status" /\ Rejected(2) /\ ~req[2].form.sig_ok

----------------------------------------------------------------------------
(* C3 *)

\* an opt-out or opt-in keyword from a sender that matched no customer row
KeywordFromUnmatched(r) ==
    /\ IsInbound(r) /\ Accepted(r) /\ Replied(r)
    /\ TrimmedUpper(req[r].form.Body) \in ContractUnsubscribe \cup ContractResubscribe
    /\ req[r].row_idx = NoRow

RowsOfPhone(e164) == {i \in DOMAIN custRows : RuleMatches(i, e164)}

\* C3 as stated: once the request of an opt-out (opt-in) keyword from a phone
\* with no matching record is answered and nothing is pending, exactly one
\* record exists for that phone, with dnc = TRUE (FALSE).
C3_UpsertOnMiss ==
    \A r \in Requests :
        (KeywordFromUnmatched(r) /\ req[r].pc = "done"
            /\ bg[r].pc \in {"none", "done"})
        => /\ Cardinality(RowsOfPhone(from_num(req[r].form))) = 1
           /\ \A i \in RowsOfPhone(from_num(req[r].form)) :
                CellOf(custRows[i], k_dnc) =
                   (IF TrimmedUpper(req[r].form.Body) \in ContractUnsubscribe
                    THEN <<"T", "R", "U", "E">> ELSE <<"F", "A", "L", "S", "E">>)

\* C3 amended: the consent updates are update-only. An opt-out or opt-in
\* keyword from a phone that matches no customer row starts no update, no
\* record is created for that phone, and the number of customer rows never
\* changes.
C3_NoUpsertOnMiss ==
    /\ \A r \in Requests :
          KeywordFromUnmatched(r)
             => /\ bg[r].pc = "none"
                /\ RowsOfPhone(from_num(req[r].form)) = {}
    /\ \E sh \in CustSheets : custHeaders = sh[1] /\ Len(custRows) = Len(sh[2])

\* STOP from a number that is on no row was answered; nothing was started
C3_Witness ==
    \E r \in Requests :
        /\ KeywordFromUnmatched(r)
        /\ req[r].pc = "done"
        /\ req[r].http = 200
        /\ req[r].form.From = UnknownFrom
        /\ TrimmedUpper(req[r].form.Body) = <<"S", "T", "O", "P">>
        /\ bg[r].pc = "none"

----------------------------------------------------------------------------
(* C9 *)

\* C9: a validated inbound message whose sender matches no customer row is
\* answered with the default canned reply and starts no update, whatever its
\* body.
C9_LookupMissDefaultReply ==
    \A r \in Requests :
        (IsInbound(r) /\ Accepted(r) /\ Replied(r) /\ req[r].row_idx = NoRow)
            => (req[r].reply = DefaultReply /\ bg[r].pc = "none")


----------------------------------------------------------------------------
(* C4 *)

UnsubscribeRequest(r) ==
    /\ IsInbound(r) /\ Accepted(r) /\ Replied(r)
    /\ TrimmedUpper(req[r].form.Body) \in ContractUnsubscribe

\* the do-not-contact cell of the row a request matched
DncOfMatched(r) == CellOf(SheetRow(req[r].row_idx), k_dnc)

\* C4 as stated: every validated inbound request with an opt-out keyword is
\* answered with the unsubscribe text and, from the moment its reply is chosen
\* and unless its update fails, a record of the sender's phone eventually has
\* dnc = TRUE.
C4_UnsubscribeEveryRequest ==
    /\ [](\A r \in Requests : UnsubscribeRequest(r) => req[r].reply = UnsubscribeReply)
    /\ \A r \in Requests :
          (UnsubscribeRequest(r) /\ req[r].pc = "return") ~>
             \/ bg[r].pc = "failed"
             \/ /\ IsInbound(r)
                /\ \E i \in RowsOfPhone(from_num(req[r].form)) :
                      CellOf(custRows[i], k_dnc) = <<"T", "R", "U", "E">>

\* C4 amended: every validated inbound request with an opt-out keyword whose
\* sender matches a customer row is answered 200 with the unsubscribe text
\* and, under fair scheduling and unless its update fails, once its update
\* is started the matched row eventually has dnc = TRUE (the sheet having a
\* do-not-contact column).
C4_UnsubscribeMatchedSender ==
    /\ [](\A r \in Requests :
            (UnsubscribeRequest(r) /\ req[r].row_idx # NoRow)
               => /\ req[r].reply = UnsubscribeReply
                  /\ req[r].pc = "done" => req[r].http = 200)
    /\ \A r \in Requests :
          (UnsubscribeRequest(r) /\ req[r].row_idx # NoRow) ~> (req[r].pc = "done")
    /\ \A r \in Requests :
          (bg[r].pc = "begin" /\ bg[r].target = "handle_unsubscribe") ~>
             (bg[r].pc = "failed" \/ DncOfMatched(r) = <<"T", "R", "U", "E">>)

\* " stop\r\n" from the known number was answered and row 2 now has dnc = TRUE
C4_Witness ==
    \E r \in Requests :
        /\ UnsubscribeRequest(r)
        /\ req[r].form.From = KnownFrom
        /\ req[r].pc = "done"
        /\ req[r].reply = UnsubscribeReply
        /\ bg[r].pc = "done"
        /\ req[r].row_idx = 2
        /\ DncOfMatched(r) = <<"T", "R", "U", "E">>

----------------------------------------------------------------------------
(* C8 *)

\* the timestamp a background thread put in its dictionary
StampOf(r) ==
    LET es == {n \in DOMAIN bg[r].updates :
                  bg[r].updates[n][1] \in {k_optout_date, k_optin_date}}
    IN  IF es = {} THEN <<>> ELSE bg[r].updates[CHOOSE n \in es : TRUE][2]

\* two opt-outs of one phone, the second received after the first was answered,
\* both updates finished, and no other update of that row finished
TwoUnsubscribes(p, q) ==
    /\ p < q
    /\ UnsubscribeRequest(p) /\ UnsubscribeRequest(q)
    /\ p \in req[q].after
    /\ from_num(req[p].form) = from_num(req[q].form)
    /\ req[p].row_idx # NoRow /\ req[q].row_idx = req[p].row_idx
    /\ bg[p].pc = "done" /\ bg[q].pc = "done"
    /\ \A o \in Requests \ {p, q} :
          ~(bg[o].pc = "done" /\ bg[o].row_idx = req[p].row_idx)

\* C8 as stated: after two successive opt-outs of one phone, once both updates
\* have finished the record has dnc = TRUE and the opt-out date the second
\* event's update took, whatever the scheduling of the two threads.
C8_SecondTimestampWins ==
    \A p, q \in Requests :
        (TwoUnsubscribes(p, q) /\ HasColumn(k_optout_date))
        => /\ DncOfMatched(p) = <<"T", "R", "U", "E">>
           /\ CellOf(SheetRow(req[p].row_idx), k_optout_date) = StampOf(q)

\* the write of a finished unsubscribe update put its values in its row
UnsubscribeWrites ==
    \A r \in Requests :
        (bg[r].pc = "write" /\ bg'[r].pc = "done" /\ bg[r].target = "handle_unsubscribe")
        => /\ CellOf(custRows'[bg[r].row_idx - 1], k_dnc) = <<"T", "R", "U", "E">>
           /\ HasColumn(k_optout_date)
                 => CellOf(custRows'[bg[r].row_idx - 1], k_optout_date) = StampOf(r)

\* C8 amended: after two successive opt-outs of one phone, once both updates
\* have finished without a store failure the record has dnc = TRUE and its
\* opt-out date is the timestamp taken by whichever of the two updates wrote
\* the row last, which may be the first event's (the two threads are not
\* ordered); each update's write leaves its own values in the row.
C8_LastWriterWins ==
    /\ [](\A p, q \in Requests :
            TwoUnsubscribes(p, q)
            => /\ DncOfMatched(p) = <<"T", "R", "U", "E">>
               /\ HasColumn(k_optout_date)
                     => CellOf(SheetRow(req[p].row_idx), k_optout_date)
                           \in {StampOf(p), StampOf(q)})
    /\ [][UnsubscribeWrites]_vars

\* both updates finished and the row holds the first event's timestamp, which
\* differs from the second's
C8_Witness ==
    /\ TwoUnsubscribes(1, 2)
    /\ HasColumn(k_optout_date)
    /\ StampOf(1) # StampOf(2)
    /\ CellOf(SheetRow(req[1].row_idx), k_optout_date) = StampOf(1)

----------------------------------------------------------------------------
(* C5, C6, C7 *)

SidRows(s) == {i \in DOMAIN logRows : Strip(logRows[i][8]) = s}

StatusCallbacks(s) ==
    {r \in Requests : IsStatus(r) /\ Accepted(r) /\ sid(req[r].form) = s}

SidsTried == {sid(form) : form \in StatusForms}

\* the callbacks of sid s ran one after the other and all finished unfailed
RanInTurn(s) ==
    /\ StatusCallbacks(s) # {}
    /\ \A p, q \in StatusCallbacks(s) : p < q => p \in req[q].after
    /\ \A r \in StatusCallbacks(s) : req[r].pc = "done" /\ ~req[r].failed

LastCallback(s) == CHOOSE r \in StatusCallbacks(s) : \A q \in StatusCallbacks(s) : q <= r

\* C5: when the callbacks of a sid run one after the other (each received
\* after the previous one was answered) and no store call fails, the Message
\* Log holds exactly one row of that sid, inserted by the first callback if
\* there was none, and its status and error are those of the latest callback.
C5_SequentialUpsert ==
    \A s \in SidsTried :
        RanInTurn(s)
        => /\ Cardinality(SidRows(s)) = 1
           /\ \A i \in SidRows(s) :
                 /\ logRows[i][6] = status(req[LastCallback(s)].form)
                 /\ logRows[i][7] = error(req[LastCallback(s)].form)

\* on an empty log, "sent" then "failed"/30007 for S1: one row, holding the latter
C5_Witness ==
    /\ Len(logRows) = 1
    /\ RanInTurn(<<"S", "1">>)
    /\ StatusCallbacks(<<"S", "1">>) = {1, 2}
    /\ status(req[1].form) = <<"s", "e", "n", "t">>
    /\ logRows[1][6] = <<"f", "a", "i", "l", "e", "d">>
    /\ logRows[1][7] = <<"3", "0", "0", "0", "7">>
    /\ logRows[1][8] = <<"S", "1">>

\* C6: the Message Log never holds two rows of the same non-empty sid.
C6_OneRowPerSid ==
    \A s \in SidsTried : s # <<>> => Cardinality(SidRows(s)) <= 1

\* the log shows the sid and status of callback r
Shows(r) ==
    /\ IsStatus(r)
    /\ \E i \in DOMAIN logRows :
          /\ Strip(logRows[i][8]) = sid(req[r].form)
          /\ logRows[i][6] = status(req[r].form)

\* C7: every validated status callback is answered, and answered exactly "OK"
\* with status 200, whatever its fields and whether or not a store call
\* raised; and unless a store call raised the log comes to show a row with
\* the callback's sid and status.
C7_StatusAlwaysOK ==
    /\ [](\A r \in Requests :
            (IsStatus(r) /\ Accepted(r) /\ req[r].pc = "done")
               => (req[r].http = 200 /\ req[r].reply = "OK"))
    /\ \A r \in Requests :
          (IsStatus(r) /\ Accepted(r)) ~> (req[r].pc = "done" /\ req[r].http = 200)
    /\ \A r \in Requests :
          (IsStatus(r) /\ req[r].pc = "open") ~> (req[r].failed \/ Shows(r))

\* a callback without any field whose update raised, and one whose update
\* went through, were both answered "OK"
C7_Witness ==
    /\ IsStatus(1) /\ req[1].pc = "done" /\ req[1].failed
    /\ req[1].form.MessageSid = None /\ req[1].form.MessageStatus = None
    /\ req[1].http = 200 /\ req[1].reply = "OK"
    /\ IsStatus(2) /\ req[2].pc = "done" /\ ~req[2].failed
    /\ req[2].http = 200 /\ req[2].reply = "OK"
    /\ sid(req[2].form) = <<"S", "2">> /\ Shows(2)

----------------------------------------------------------------------------
(* C11 *)

\* the background thread of request r has begun to execute its target
Executing(r) == bg[r].pc \in {"headers", "read", "range", "write", "done", "failed"}

\* C11: the reply of an unsubscribe or resubscribe request is returned before
\* the persistence step of that request starts executing, hence before its
\* store write: a thread that has begun to run, or has written the row,
\* belongs to a request whose response was already returned.
C11_ReplyBeforePersist ==
    \A r \in Requests :
        /\ Executing(r) => req[r].pc = "done"
        /\ bg[r].pc = "done" => req[r].pc = "done"

----------------------------------------------------------------------------
(* C12 *)

\* C12: no request thread makes a remote store call itself (every read and
\* write of the store is made by a background thread), so that no request
\* is left without its response by a store call that raises.
C12_NoStoreCallOnRequestThread ==
    \A r \in Requests :
        Accepted(r) => (req[r].calls = 0 /\ req[r].http # 500)

----------------------------------------------------------------------------
(* C13 *)

\* sheet row n of the customer sheet as it was before any request
InitialRow(n) ==
    LET sh == CHOOSE s \in CustSheets : s[1] = custHeaders
    IN  IF n - 1 \in DOMAIN sh[2] THEN sh[2][n - 1] ELSE <<>>

\* the row left by the whole update of thread a followed by that of thread b
OneAfterTheOther(a, b) ==
    set_row_values(custHeaders,
        TrimTrailingEmpty(
            set_row_values(custHeaders,
                           TrimTrailingEmpty(InitialRow(bg[a].row_idx)),
                           bg[a].updates)),
        bg[b].updates)

\* both threads ran to their end on the same row, one unsubscribing and the
\* other resubscribing
ConsentPair(a, b) ==
    /\ a # b
    /\ bg[a].pc = "done" /\ bg[b].pc = "done"
    /\ bg[a].target = "handle_unsubscribe" /\ bg[b].target = "handle_resubscribe"
    /\ bg[a].row_idx = bg[b].row_idx

\* C13: after an unsubscribe and a resubscribe of the same row have both
\* finished, however their reads and writes interleaved, the row is the one
\* that running the two updates one after the other, in one order or the
\* other, would leave.
C13_ConcurrentConsentSerial ==
    \A a, b \in Requests :
        ConsentPair(a, b)
        => SheetRow(bg[a].row_idx) \in {OneAfterTheOther(a, b), OneAfterTheOther(b, a)}

----------------------------------------------------------------------------
(* C14 *)

\* the reply inbound() chose for the request whose thread runs target
ReplyFor(target) ==
    IF target = "handle_unsubscribe" THEN UnsubscribeReply ELSE SubscribedReply

\* no thread that ran to its end was given sheet row n
NoUpdateDone(n) == \A r \in Requests : bg[r].row_idx = n => bg[r].pc # "done"

\* C14: a store failure in a background update stays inside its thread: the
\* thread ends there and is not run again, the request keeps the reply that
\* was chosen for it and is answered 200, a row whose updates all failed is
\* as it was before them, and a request received while or after a thread
\* failed is still answered.
C14_BackgroundFailureContained ==
    /\ [](\A r \in Requests :
            bg[r].pc = "failed"
            => /\ req[r].reply = ReplyFor(bg[r].target)
               /\ ~req[r].failed
               /\ req[r].pc = "done" => req[r].http = 200)
    /\ [](\A n \in 2 .. Len(custRows) + 1 :
            NoUpdateDone(n) => SheetRow(n) = InitialRow(n))
    /\ [][\A r \in Requests : bg[r].pc = "failed" => bg'[r] = bg[r]]_vars
    /\ \A r \in Requests :
          (bg[r].pc = "failed" /\ req[r].pc = "return") ~> (req[r].pc = "done")
    /\ \A r, q \in Requests :
          (bg[q].pc = "failed" /\ req[r].pc = "lookup") ~> (req[r].pc = "done")

\* the unsubscribe of row 2 failed: its request was answered with the
\* unsubscribe text, the row is untouched, and the next request was served
C14_Witness ==
    /\ bg[1].pc = "failed" /\ bg[1].target = "handle_unsubscribe"
    /\ bg[1].row_idx = 2 /\ bg[1].cur # <<>>
    /\ req[1].pc = "done" /\ req[1].http = 200 /\ req[1].reply = UnsubscribeReply
    /\ SheetRow(2) = InitialRow(2)
    /\ 1 \in req[2].after
    /\ req[2].pc = "done" /\ req[2].http = 200 /\ req[2].reply = DefaultReply

----------------------------------------------------------------------------
(* C15 *)

\* the callbacks that found no row of their sid and appended one
Appenders ==
    {r \in Requests : /\ IsStatus(r) /\ Accepted(r) /\ req[r].pc \in {"return", "done"}
                      /\ ~req[r].failed /\ req[r].row_idx = NoRow}

\* the rows appended to the Message Log: rows are only ever added at its end
InsertedRows == {i \in DOMAIN logRows : i > Len(logRows) - Cardinality(Appenders)}

\* the callbacks that carried sid s
CallbacksOf(s) == {q \in Requests : IsStatus(q) /\ Accepted(q) /\ sid(req[q].form) = s}

\* C15: a row inserted on a status miss has only its Date, Status, Error and
\* SID cells filled: its Name, Phone, Type and Message cells are blank.
C15_InsertedRowOnlySidStatusError ==
    \A i \in InsertedRows :
        /\ logRows[i][2] = <<>> /\ logRows[i][3] = <<>>
        /\ logRows[i][4] = <<>> /\ logRows[i][5] = <<>>

\* C15 as amended: a row inserted on a status miss carries a timestamp, the
\* number of the To field without its channel prefix in Phone, the text
\* "Status Update" in Type, and the sid of the callback that inserted it; its
\* Name and Message cells are blank, and its status and error are those of a
\* callback of that sid.
C15_InsertedRowCells ==
    \A i \in InsertedRows :
        \E r \in Appenders :
            /\ logRows[i][1] \in {strftime_now(c) : c \in 0 .. MaxClock}
            /\ logRows[i][2] = <<>>
            /\ logRows[i][3] = Strip(Remove(OrEmpty(req[r].form.To), <<"w", "h", "a", "t", "s", "a", "p", "p", ":">>))
            /\ logRows[i][4] = <<"S", "t", "a", "t", "u", "s", " ", "U", "p", "d", "a", "t", "e">>
            /\ logRows[i][5] = <<>>
            /\ logRows[i][8] = sid(req[r].form)
            /\ logRows[i][6] \in {status(req[q].form) : q \in CallbacksOf(logRows[i][8])}
            /\ logRows[i][7] \in {error(req[q].form) : q \in CallbacksOf(logRows[i][8])}
            /\ Len(logRows[i]) = 8

\* the callback "\fS1\r\n"/sent to whatsapp:+5076111 on an empty log inserted
\* the row of S1 with that number and the type "Status Update"
C15_Witness ==
    /\ Len(logRows) = 1
    /\ Appenders = {1}
    /\ logRows[1] = << logRows[1][1], <<>>, <<"+", "5", "0", "7", "6", "1", "1", "1">>, <<"S", "t", "a", "t", "u", "s", " ", "U", "p", "d", "a", "t", "e">>, <<>>,
                       <<"s", "e", "n", "t">>, <<>>, <<"S", "1">> >>

----------------------------------------------------------------------------
(* Direct calls of set_row_values                                          *)

MaxRowCells == 3    \* cells of the row given to a direct call

RowCells == { <<>>, <<"x">>, <<"T", "R", "U", "E">> }

\* header rows: every field under an accepted spelling; no opt-in and no
\* opt-out column; two spellings of one field and a field under its own
\* name; empty header cells; one header twice; headers with characters
\* outside ASCII, U+00B2 being alphanumeric, U+00B7 and U+00A0 not
RowHeaders == {
    FullHeaders,
    BareHeaders,
    << <<"D", "O", "_", "N", "O", "T", "_", "C", "O", "N", "T", "A", "C", "T">>, <<"D", "o", " ", "N", "o", "t", " ", "C", "o", "n", "t", "a", "c", "t">>, <<"o", "p", "t", "o", "u", "t", "_", "d", "a", "t", "e">> >>,
    << <<"P", "h", "o", "n", "e">>, <<>>, <<"d", "n", "c">>, <<>> >>,
    << <<"O", "p", "t", "O", "u", "t", "D", "a", "t", "e">>, <<"O", "p", "t", "O", "u", "t", "D", "a", "t", "e">> >>,
    << <<"D", "o", " ", "N", "o", "t", " ", "C", "o", "n", "t", "a", "c", "t", "²">>, <<"O", "p", "t", "·", "O", "u", "t", " ", "D", "a", "t", "e">>, <<"O", "P", "T", " ", "I", "N", " ", "D", "A", "T", "É">> >>
  }

UpdateDicts == {
    UpdatesOf("handle_unsubscribe", 0),
    UpdatesOf("handle_resubscribe", 0),
    << <<k_phone, <<"6", "2", "2", "2">>>>, <<k_status, <<"s", "e", "n", "t">>>>, <<<<"N", "a", "m", "e">>, <<"Z", "e", "d">>>> >>,
    <<>>
  }

\* the row is stored twice: sheet row 2 is the one updated, sheet row 3 keeps
\* the cells it had
InitRow ==
    /\ TWILIO_AUTH_TOKEN = <<>>
    /\ custHeaders \in RowHeaders
    /\ \E row \in SeqsUpTo(RowCells, MaxRowCells) : custRows = <<row, row>>
    /\ HEADER_MAP = _build_header_map(custHeaders)
    /\ logHeaders = required_headers
    /\ logRows = <<>>
    /\ clock = 0
    /\ req = [r \in Requests |-> IdleReq]
    /\ bg = [r \in Requests |-> IdleBg]
    /\ nreq = 0
    /\ e164_in = <<>>
    /\ idx_out = NoRow

\* Thread r calls set_row_values(sheet, 2, updates_logical): the call then
\* goes through its four store calls, bg_headers, bg_read, bg_range and
\* bg_write, each of which the other caller's steps can come between.
set_row_values_call(r) ==
    /\ bg[r].pc = "none"
    /\ nreq' = nreq + 1
    /\ \E u \in UpdateDicts :
          bg' = [bg EXCEPT ![r] = [IdleBg EXCEPT !.pc = "headers",
                                                !.target = "set_row_values",
                                                !.row_idx = 2, !.updates = u]]
    /\ UNCHANGED <<TWILIO_AUTH_TOKEN, sheets, clock, req, e164_in, idx_out>>

NextRow ==
    \E r \in Requests :
        \/ set_row_values_call(r)
        \/ bg_headers(r)
        \/ bg_read(r)
        \/ bg_range(r)
        \/ bg_write(r)
        \/ bg_raises(r)

SpecRow == InitRow /\ [][NextRow]_vars

----------------------------------------------------------------------------
(* C16 *)

\* the cell of a row in column c, "" when the row ends before it
CellAt(row, c) == IF c \in DOMAIN row THEN row[c] ELSE <<>>

\* the columns whose header matches a logical field: the header is one of the
\* field's accepted spellings up to case and punctuation, or the field's name
MatchingColumns(logical_key) ==
    {c \in DOMAIN custHeaders :
        /\ custHeaders[c] # <<>>
        /\ \/ custHeaders[c] = logical_key
           \/ \E e \in DOMAIN _HEADER_LOGICALS :
                 /\ _HEADER_LOGICALS[e][1] = logical_key
                 /\ \E j \in DOMAIN _HEADER_LOGICALS[e][2] :
                       _normalize(custHeaders[c]) = _normalize(_HEADER_LOGICALS[e][2][j])}

LongestRow == IF Len(custRows[1]) > Len(custRows[2]) THEN Len(custRows[1])
              ELSE Len(custRows[2])

\* the call of thread r has written the row and no other call has
LoneWriter(r) ==
    /\ bg[r].pc = "done"
    /\ \A q \in Requests : q # r => bg[q].pc # "done"

\* C16: for every row, every update dictionary and every interleaving of the
\* callers, when a call of set_row_values writes the row, every field of its
\* update that has a matching header holds its new value in a column of that
\* header, whatever fields without header the update has beside it; and when
\* no other call has written the row, every cell that differs from its
\* previous value is the cell of such a field: a field without matching
\* header changes nothing and stops nothing, and the cells the update does
\* not name keep their value.
C16_DroppedWritesAndFrame ==
    [][\A r \in Requests :
          (bg[r].pc = "write" /\ bg'[r].pc = "done")
          => LET u == bg[r].updates
                 cols == [n \in DOMAIN u |-> MatchingColumns(u[n][1])]
             IN  /\ \A n \in DOMAIN u :
                       cols[n] # {}
                       => \E c \in cols[n] : CellAt(custRows'[1], c) = u[n][2]
                 /\ LoneWriter(r)'
                    => \A c \in 1 .. LongestRow' :
                          CellAt(custRows'[1], c) # CellAt(custRows'[2], c)
                          => \E n \in DOMAIN u :
                                /\ c \in cols[n]
                                /\ CellAt(custRows'[1], c) = u[n][2]]_vars

\* an unsubscribe update on a sheet without opt-out column, written while a
\* second call has read the row and not yet written it: the date is dropped,
\* the do-not-contact cell is written, the other cells are kept
C16_Witness ==
    /\ LoneWriter(1) /\ bg[1].target = "set_row_values"
    /\ bg[2].target = "set_row_values" /\ bg[2].pc = "write"
    /\ custHeaders = BareHeaders
    /\ bg[1].updates = UpdatesOf("handle_unsubscribe", 0)
    /\ custRows[2] = << <<"x">>, <<>>, <<"x">> >>
    /\ custRows[1] = << <<"x">>, <<"T", "R", "U", "E">>, <<"x">> >>

----------------------------------------------------------------------------
(* C17 *)

\* the From field of request r is missing, or nothing is left of it without
\* the channel prefix, '+', spaces and hyphens
EmptySender(r) ==
    /\ IsInbound(r) /\ Accepted(r)
    /\ WithoutSeparators(from_num(req[r].form)) = <<>>

\* C17: a validated inbound request with an empty sender matches no customer
\* row and starts no update, so that it changes no customer's consent state,
\* whatever its body.
C17_EmptySenderMatchesNothing ==
    \A r \in Requests :
        EmptySender(r)
        => /\ req[r].row_idx = NoRow
           /\ bg[r].pc = "none"
           /\ (\A q \in Requests : q # r => bg[q].pc = "none")
               => \A n \in 2 .. Len(custRows) + 1 : SheetRow(n) = InitialRow(n)

----------------------------------------------------------------------------
(* C18 *)

\* the rows the Message Log held before any callback
InitialLog ==
    LET n == Len(logRows) - Cardinality(Appenders)
    IN  (CHOOSE sh \in LogSheets : Len(sh[2]) = n)[2]

\* C18: a callback without MessageSid and SmsSid changes the status and the
\* error of no row the Message Log already held, rows with a blank SID cell
\* included: a row whose status or error changed has a sid, and a callback
\* carried it.
C18_EmptySidTouchesNoRow ==
    \A i \in DOMAIN InitialLog :
        (logRows[i][6] # InitialLog[i][6] \/ logRows[i][7] # InitialLog[i][7])
        => /\ Strip(logRows[i][8]) # <<>>
           /\ CallbacksOf(Strip(logRows[i][8])) # {}

====
